---- MODULE Spec2Model ----
(***************************************************************************)
(* finale/black_scholes.py: the Black-Scholes pricing kernel, the implied  *)
(* volatility solver built on scipy.optimize.brentq, and the six greeks    *)
(* obtained with jax.jacfwd.                                               *)
(*                                                                         *)
(* Numbers.  The kernel runs in jax's default float32; the solver's        *)
(* iterate is a float64 that is narrowed to float32 when it enters the     *)
(* jitted kernel.  Both are modelled in decimal fixed point:               *)
(*   kernel values : integers in units of 1/KS  (KS = 10^4)                *)
(*   solver iterate: integers in units of 1/XS  (XS = 10^6)                *)
(* with the IEEE special values +inf, -inf and NaN kept as INF, -INF and   *)
(* NAN, and every operation rounded to the nearest grid value.  The grid   *)
(* is coarser than float32: a value float32 still resolves may already be  *)
(* flushed to 0 here, while whatever float32 flushes to 0 (norm.cdf of a   *)
(* d1 below about -14) is 0 here too.                                      *)
(*                                                                         *)
(* yte, the calendar helper, takes no part in pricing and is left out.     *)
(***************************************************************************)
EXTENDS Integers, Sequences, FiniteSets, TLC

\* One unit of a kernel value is 1/KS.
KS == 10000
\* One unit of the solver's iterate is 1/XS.
XS == 1000000
\* IEEE +inf (and -INF for -inf): every finite kernel value v has |v| < INF.
INF == 1000000000
\* IEEE NaN.
NAN == 2000000000

Abs(a) == IF a < 0 THEN -a ELSE a
Sgn(a) == IF a < 0 THEN -1 ELSE IF a > 0 THEN 1 ELSE 0
Min(a, b) == IF a < b THEN a ELSE b
Max(a, b) == IF a > b THEN a ELSE b

IsNaN(a) == a = NAN
IsInf(a) == a = INF \/ a = -INF
IsFinite(a) == ~IsNaN(a) /\ ~IsInf(a)

(***************************************************************************)
(* The arithmetic is written as functions: a function's arguments are      *)
(* values, so a nested expression is computed once, whatever the number of *)
(* places that read it.                                                    *)
(*                                                                         *)
(* MulDivRem[a, b, c, B] is <<q, r>> with a*b = q*c + r and 0 <= r < c,    *)
(* for a, b >= 0 and c > 0, without forming the product a*b: long          *)
(* multiplication over the digits of a in base B, reducing modulo c at     *)
(* every digit; q saturates at INF.                                        *)
(***************************************************************************)
MulDivDigit ==
    [h \in Nat \X Nat, digit \in Nat, b \in Nat, c \in Nat, B \in Nat |->
        <<IF h[1] >= INF \div B THEN INF
          ELSE Min(B * h[1] + (B * h[2] + digit * b) \div c, INF),
          (B * h[2] + digit * b) % c>>]

MulDivRem[a \in Nat, b \in Nat, c \in Nat, B \in Nat] ==
    IF a = 0 THEN <<0, 0>>
    ELSE MulDivDigit[MulDivRem[a \div B, b, c, B], a % B, b, c, B]

\* The quotient of <<q, r>> rounded to nearest, halves up.
RoundQuotient ==
    [qr \in Nat \X Nat, c \in Nat |->
        Min(qr[1] + (IF 2 * qr[2] >= c THEN 1 ELSE 0), INF)]

MulDivAbs ==
    [lo \in Nat, hi \in Nat, c \in Nat |->
        RoundQuotient[MulDivRem[lo, hi, c,
                                IF hi <= 50000000 /\ c <= 30000000 THEN 16 ELSE 2],
                      c]]

\* a*b/c rounded to the nearest integer (halves away from zero), c # 0,
\* saturating at +-INF: one rounded floating-point multiply-divide.
MulDiv ==
    [a \in Int, b \in Int, c \in Int |->
        Sgn(a) * Sgn(b) * Sgn(c)
          * MulDivAbs[Min(Abs(a), Abs(b)), Max(Abs(a), Abs(b)), Abs(c)]]

(***************************************************************************)
(* float32 arithmetic on kernel values, with IEEE special values.          *)
(***************************************************************************)
XNeg == [a \in Int |-> IF IsNaN(a) THEN NAN ELSE -a]

XAdd ==
    [a \in Int, b \in Int |->
        IF IsNaN(a) \/ IsNaN(b) THEN NAN
        ELSE IF IsInf(a) THEN (IF b = -a THEN NAN ELSE a)
        ELSE IF IsInf(b) THEN b
        ELSE IF a + b >= INF THEN INF
        ELSE IF a + b <= -INF THEN -INF
        ELSE a + b]

XSub == [a \in Int, b \in Int |-> XAdd[a, XNeg[b]]]

XMul ==
    [a \in Int, b \in Int |->
        IF IsNaN(a) \/ IsNaN(b) THEN NAN
        ELSE IF IsInf(a) \/ IsInf(b)
             THEN (IF a = 0 \/ b = 0 THEN NAN ELSE Sgn(a) * Sgn(b) * INF)
        ELSE MulDiv[a, b, KS]]

\* A zero divisor is +0.0: x/0 is +-inf by the sign of x, and 0/0 is NaN.
XDiv ==
    [a \in Int, b \in Int |->
        IF IsNaN(a) \/ IsNaN(b) THEN NAN
        ELSE IF IsInf(a) THEN (IF IsInf(b) THEN NAN
                               ELSE IF b = 0 THEN a ELSE Sgn(a) * Sgn(b) * INF)
        ELSE IF IsInf(b) THEN 0
        ELSE IF b = 0 THEN (IF a = 0 THEN NAN ELSE Sgn(a) * INF)
        ELSE MulDiv[a, KS, b]]

\* floor(sqrt(n)) for an integer n >= 0, by bisection on [lo, hi).
ISqrt[n \in Nat, lo \in Nat, hi \in Nat] ==
    IF hi - lo <= 1 THEN lo
    ELSE IF ((lo + hi) \div 2) * ((lo + hi) \div 2) <= n
         THEN ISqrt[n, (lo + hi) \div 2, hi]
         ELSE ISqrt[n, lo, (lo + hi) \div 2]

SqrtRound == [n \in Nat, s \in Nat |-> IF n - s * s > s THEN s + 1 ELSE s]

\* jnp.sqrt
Sqrt ==
    [a \in Int |->
        IF IsNaN(a) \/ a < 0 THEN NAN
        ELSE IF a = INF THEN INF
        ELSE SqrtRound[a * KS, ISqrt[a * KS, 0, 46341]]]

\* ln 2 in kernel units.
LN2 == 6931

\* 2*atanh(z) = 2z(1 + z^2(1/3 + z^2(1/5 + z^2(1/7 + z^2/9)))), z2 = z^2.
LnSeries ==
    [z \in Int, z2 \in Int |->
        2 * MulDiv[z,
              KS + MulDiv[z2,
                     KS \div 3 + MulDiv[z2,
                                   KS \div 5 + MulDiv[z2,
                                                 KS \div 7 + MulDiv[z2, KS \div 9, KS],
                                                 KS],
                                   KS],
                     KS],
              KS]]

LnOfRatio == [z \in Int |-> LnSeries[z, MulDiv[z, z, KS]]]

\* ln(m) for m in [KS, 2*KS): 2*atanh((m-1)/(m+1)).
LnMantissa == [m \in Int |-> LnOfRatio[MulDiv[m - KS, KS, m + KS]]]

\* ln of a finite a > 0, by halving or doubling into [KS, 2*KS).
LnFix[a \in Int] ==
    IF a >= 2 * KS THEN LnFix[MulDiv[a, 1, 2]] + LN2
    ELSE IF a < KS THEN LnFix[2 * a] - LN2
    ELSE LnMantissa[a]

\* jnp.log
Ln ==
    [a \in Int |->
        IF IsNaN(a) \/ a < 0 THEN NAN
        ELSE IF a = 0 THEN -INF
        ELSE IF a = INF THEN INF
        ELSE LnFix[a]]

Square == [h \in Int |-> IF h = INF THEN INF ELSE MulDiv[h, h, KS]]

\* 1 + a(1 + a/2(1 + a/3(1 + a/4(1 + a/5(1 + a/6))))
ExpSeries ==
    [a \in Int |->
        KS + MulDiv[a,
               KS + MulDiv[a,
                      KS + MulDiv[a,
                             KS + MulDiv[a,
                                    KS + MulDiv[a, KS + MulDiv[a, KS, 6 * KS], 5 * KS],
                                    4 * KS],
                             3 * KS],
                      2 * KS],
               KS]]

\* exp of a finite a: the series on |a| <= 1/2, squaring outside.
ExpFix[a \in Int] ==
    IF a > 20 * KS THEN INF
    ELSE IF a < -20 * KS THEN 0
    ELSE IF Abs(a) > KS \div 2 THEN Square[ExpFix[MulDiv[a, 1, 2]]]
    ELSE ExpSeries[a]

\* jnp.exp
Exp ==
    [a \in Int |->
        IF IsNaN(a) THEN NAN
        ELSE IF a = INF THEN INF
        ELSE IF a = -INF THEN 0
        ELSE ExpFix[a]]

\* The standard normal distribution function at 0, 0.05, 0.10, ..., 4.00.
CdfTable ==
    << 5000, 5199, 5398, 5596, 5793, 5987, 6179, 6368, 6554,
       6736, 6915, 7088, 7257, 7422, 7580, 7734, 7881, 8023,
       8159, 8289, 8413, 8531, 8643, 8749, 8849, 8944, 9032,
       9115, 9192, 9265, 9332, 9394, 9452, 9505, 9554, 9599,
       9641, 9678, 9713, 9744, 9772, 9798, 9821, 9842, 9861,
       9878, 9893, 9906, 9918, 9929, 9938, 9946, 9953, 9960,
       9965, 9970, 9974, 9978, 9981, 9984, 9987, 9989, 9990,
       9992, 9993, 9994, 9995, 9996, 9997, 9997, 9998, 9998,
       9998, 9999, 9999, 9999, 9999, 9999, 10000, 10000, 10000 >>

\* The table's step, 0.05, in kernel units.
CdfStep == 500

\* The distribution function of a finite a >= 0: linear between table points;
\* beyond the table it has rounded to 1.
CdfPos ==
    [a \in Nat |->
        IF a \div CdfStep + 1 >= Len(CdfTable) THEN KS
        ELSE CdfTable[a \div CdfStep + 1]
             + MulDiv[CdfTable[a \div CdfStep + 2] - CdfTable[a \div CdfStep + 1],
                      a % CdfStep, CdfStep]]

\* jax.scipy.stats.norm.cdf
Cdf ==
    [a \in Int |->
        IF IsNaN(a) THEN NAN
        ELSE IF a = INF THEN KS
        ELSE IF a = -INF THEN 0
        ELSE IF a >= 0 THEN CdfPos[a]
        ELSE KS - CdfPos[-a]]

(***************************************************************************)
(* The pricing kernel, black_scholes(σ, S, K, T, r = 0.0, mode = 0).       *)
(* The source's σ is written sigma.                                        *)
(***************************************************************************)
\* The default of the parameter r.
DefaultR == 0
\* The default of the parameter mode.
DefaultMode == 0

\* σ * jnp.sqrt(T)
SigmaSqrtT(sigma, T) == XMul[sigma, Sqrt[T]]

d1(sigma, S, K, T, r) ==
    XDiv[XAdd[Ln[XDiv[S, K]],
              XMul[XAdd[r, XDiv[XMul[sigma, sigma], 2 * KS]], T]],
         SigmaSqrtT(sigma, T)]

d2(sigma, S, K, T, r) == XSub[d1(sigma, S, K, T, r), SigmaSqrtT(sigma, T)]

\* K * jnp.exp(-r * T)
DiscountedStrike(K, T, r) == XMul[K, Exp[XMul[XNeg[r], T]]]

call(sigma, S, K, T, r) ==
    XSub[XMul[Cdf[d1(sigma, S, K, T, r)], S],
         XMul[XMul[Cdf[d2(sigma, S, K, T, r)], K], Exp[XMul[XNeg[r], T]]]]

\* The false branch of the jax.lax.cond, K * exp(-r * T) - S + call, for the
\* call premium c.
PutFromParity == [c \in Int, KdiscMinusS \in Int |-> XAdd[KdiscMinusS, c]]

\* The put taken from parity with the strike left undiscounted, K - S + call.
PutUndiscounted(sigma, S, K, T, r, mode) ==
    IF mode = 0 THEN call(sigma, S, K, T, r)
    ELSE PutFromParity[call(sigma, S, K, T, r), XSub[K, S]]

\* The selection read as the comment reads it: mode 1 is the put, anything
\* else the call.
SelectPutOnlyOnOne(sigma, S, K, T, r, mode) ==
    IF mode = 1
    THEN PutFromParity[call(sigma, S, K, T, r), XSub[DiscountedStrike(K, T, r), S]]
    ELSE call(sigma, S, K, T, r)

black_scholes(sigma, S, K, T, r, mode) ==
    IF mode = 0 THEN call(sigma, S, K, T, r)
    ELSE PutFromParity[call(sigma, S, K, T, r), XSub[DiscountedStrike(K, T, r), S]]

(***************************************************************************)
(* The greeks: jax.jacfwd(f, argnum) differentiates f with respect to its  *)
(* positional argument argnum (counted from 0).  The derivative is         *)
(* modelled by the forward difference quotient over one step of that       *)
(* argument; an argument list is the tuple <<σ, S, K, T, r, mode>>.        *)
(***************************************************************************)
\* The parameters of black_scholes, in the order of its signature.
Params == <<"sigma", "S", "K", "T", "r", "mode">>

\* The step of the difference quotient in positional argument argnum.
Step(argnum) ==
    CASE argnum = 0 -> KS \div 100
      [] argnum = 1 -> KS
      [] argnum = 2 -> KS
      [] argnum = 3 -> KS \div 100
      [] argnum = 4 -> KS \div 1000

Bump(x, argnum) == [x EXCEPT ![argnum + 1] = @ + Step(argnum)]

\* black_scholes applied to an argument list.
Premium(x) == black_scholes(x[1], x[2], x[3], x[4], x[5], x[6])

\* jax.jacfwd(black_scholes, argnum), applied to the argument list x.
JacfwdBlackScholes(argnum, x) ==
    XDiv[XSub[Premium(Bump(x, argnum)), Premium(x)], Step(argnum)]

bs_delta(x) == JacfwdBlackScholes(1, x)

\* jax.jacfwd(bs_delta, argnum), applied to the argument list x.
JacfwdDelta(argnum, x) ==
    XDiv[XSub[bs_delta(Bump(x, argnum)), bs_delta(x)], Step(argnum)]

bs_gamma(x) == JacfwdDelta(1, x)
bs_theta(x) == JacfwdBlackScholes(3, x)
bs_vega(x) == JacfwdBlackScholes(0, x)
bs_vanna(x) == JacfwdDelta(0, x)
\* charm differentiating with respect to the third parameter, K.
CharmWrtStrike(x) == JacfwdDelta(2, x)
bs_charm(x) == JacfwdDelta(3, x)

GreekNames == {"delta", "gamma", "theta", "vega", "vanna", "charm"}

Greek(name, x) ==
    CASE name = "delta" -> bs_delta(x)
      [] name = "gamma" -> bs_gamma(x)
      [] name = "theta" -> bs_theta(x)
      [] name = "vega" -> bs_vega(x)
      [] name = "vanna" -> bs_vanna(x)
      [] name = "charm" -> bs_charm(x)

(***************************************************************************)
(* The inputs the callers draw from.  Money, rates, years and volatilities *)
(* are kernel values (units of 1/KS).                                      *)
(***************************************************************************)
\* Strikes 90, 100, ... : NStrike of them, and the far strike 200.
NStrike == 3
\* Volatilities 0.2, 0.4, ... : NVol of them, and the small ones 0.01, 0.02.
NVol == 2
\* Quoted premiums 0, 5, 10, ... : the multiples of 5 up to 5 * NQuote.
NQuote == 3

Strikes == {(80 + 10 * i) * KS : i \in 1..NStrike} \cup {200 * KS}
Expiries == {KS \div 4, KS}
Rates == {0, KS \div 20}
Vols == {KS \div 100, KS \div 50} \cup {(KS \div 5) * i : i \in 1..NVol}
\* Volatilities that violate σ > 0.
BadVols == {0, -(KS \div 5)}
Modes == {0, 1, 2, -1}

ValidContracts == [S : {100 * KS}, K : Strikes, T : Expiries, r : Rates]
\* Contracts that violate S > 0, K > 0 or T > 0.
InvalidContracts ==
    { [S |-> 0,         K |-> 100 * KS,  T |-> KS,  r |-> 0],
      [S |-> -100 * KS, K |-> 100 * KS,  T |-> KS,  r |-> 0],
      [S |-> 100 * KS,  K |-> 0,         T |-> KS,  r |-> 0],
      [S |-> 100 * KS,  K |-> -100 * KS, T |-> KS,  r |-> 0],
      [S |-> 100 * KS,  K |-> 90 * KS,   T |-> 0,   r |-> 0],
      [S |-> 100 * KS,  K |-> 100 * KS,  T |-> -KS, r |-> 0] }
Contracts == ValidContracts \cup InvalidContracts

\* The inputs that are what the docstring says they are: a volatility, a
\* price, a strike and a time to expiry, all positive.
ValidInput(sigma, c) == sigma > 0 /\ c.S > 0 /\ c.K > 0 /\ c.T > 0

(***************************************************************************)
(* State.                                                                  *)
(*   contract : the option contract <<S, K, T, r>> the calls are about     *)
(*   last     : the most recent call of black_scholes and what it gave     *)
(*   greek    : the most recent call of one of the six greeks              *)
(*   pc       : "idle", or "brent" while brentq's loop runs                *)
(*   run      : the most recent call of implied_vol                        *)
(***************************************************************************)
VARIABLES contract, last, greek, pc, run

vars == <<contract, last, greek, pc, run>>

NoCall == [kind |-> "none", sigma |-> 0, r |-> 0, mode |-> 0, premium |-> 0,
           outcome |-> "none"]
NoGreek == [name |-> "none", sigma |-> 0, mode |-> 0, value |-> 0]
NoRun == [status |-> "none", P |-> 0, mode |-> 0, roundtrip |-> FALSE,
          xpre |-> 0, xcur |-> 0, xblk |-> 0, fpre |-> 0, fcur |-> 0, fblk |-> 0,
          spre |-> 0, scur |-> 0, iter |-> 0, evals |-> {}, root |-> 0,
          result |-> 0]

(***************************************************************************)
(* black_scholes and the greeks are pure: their values on the callers'     *)
(* inputs are computed once and looked up by the actions.                  *)
(***************************************************************************)
\* The function f with every value computed.
Tabulated(f) == f @@ << >>

PremiumMemo ==
    Tabulated([a \in Contracts \X (Vols \cup BadVols) \X (Rates \cup {DefaultR}) \X Modes |->
                  black_scholes(a[2], a[1].S, a[1].K, a[1].T, a[3], a[4])])

CallMemo ==
    Tabulated([a \in Contracts \X (Vols \cup BadVols) \X (Rates \cup {DefaultR}) |->
                  call(a[2], a[1].S, a[1].K, a[1].T, a[3])])

GreekMemo ==
    Tabulated([a \in ValidContracts \X GreekNames \X Vols \X {0, 1} |->
                  Greek(a[2], <<a[3], a[1].S, a[1].K, a[1].T, a[1].r, a[4]>>)])

\* black_scholes has no raise and no check: every call returns its premium.
CallOf(kind, sigma, r, mode) ==
    [kind |-> kind, sigma |-> sigma, r |-> r, mode |-> mode,
     premium |-> PremiumMemo[<<contract, sigma, r, mode>>],
     outcome |-> "returned"]

\* black_scholes(σ, S, K, T, r, mode)
Price(sigma, mode) ==
    /\ pc = "idle"
    /\ last' = CallOf("full", sigma, contract.r, mode)
    /\ greek' = NoGreek
    /\ run' = NoRun
    /\ UNCHANGED <<contract, pc>>

\* black_scholes(σ, S, K, T): r and mode take their defaults.
PriceDefault(sigma) ==
    /\ pc = "idle"
    /\ last' = CallOf("defaults", sigma, DefaultR, DefaultMode)
    /\ greek' = NoGreek
    /\ run' = NoRun
    /\ UNCHANGED <<contract, pc>>

\* bs_delta(σ, S, K, T, r, mode), bs_gamma(...), ...
GreekCall(name, sigma, mode) ==
    /\ pc = "idle"
    /\ ValidInput(sigma, contract)
    /\ greek' = [name |-> name, sigma |-> sigma, mode |-> mode,
                 value |-> GreekMemo[<<contract, name, sigma, mode>>]]
    /\ last' = NoCall
    /\ run' = NoRun
    /\ UNCHANGED <<contract, pc>>

(***************************************************************************)
(* implied_vol(P, S, K, T, r, mode):                                       *)
(*     round(optimize.brentq(objective, 0., 10.), 5)                       *)
(* brentq is scipy's: its Python wrapper raises ValueError when the        *)
(* objective returns NaN, and its C routine (brentq.c) is followed below   *)
(* with xtol, rtol and maxiter at their defaults.  The iterate x is in     *)
(* units of 1/XS.                                                          *)
(***************************************************************************)
\* The bracket's ends, 0. and 10.
BracketLo == 0
BracketHi == 10 * XS
\* brentq's default maxiter.
MAXITER == 100
\* brentq's default xtol, 2e-12, on the iterate's grid: two units.  The
\* default rtol, 4 * eps, times |x| <= 10 is below one unit.
XTOL == 2
\* The digits implied_vol rounds to.
NDIGITS == 5
\* One unit of the rounded result, 10^-NDIGITS, in units of the iterate.
RoundUnit == XS \div 10 ^ NDIGITS

\* A float64 iterate entering the jitted kernel becomes a float32: the
\* nearest kernel value, and a nonzero iterate stays nonzero.
ToKernel ==
    [x \in Int |->
        IF x = 0 THEN 0
        ELSE Sgn(x) * Max(1, MulDiv[Abs(x), KS, XS])]

\* objective(σ) == black_scholes(σ, S, K, T, r, mode) - P
objective(x, c, mode, P) ==
    XSub[black_scholes(ToKernel[x], c.S, c.K, c.T, c.r, mode), P]

\* The objective at the bracket's ends, before P is subtracted.
EndpointMemo ==
    Tabulated([a \in ValidContracts \X {0, 1} \X {BracketLo, BracketHi} |->
                  objective(a[3], a[1], a[2], 0)])

\* Python's round(x, 5): to the nearest multiple of 10^-5, a tie to the even one.
RoundHalfEven ==
    [q \in Int, rem \in Int |->
        IF 2 * rem < RoundUnit THEN q * RoundUnit
        ELSE IF 2 * rem > RoundUnit THEN (q + 1) * RoundUnit
        ELSE IF q % 2 = 0 THEN q * RoundUnit
        ELSE (q + 1) * RoundUnit]

\* The root cut to 5 digits instead of rounded.
TruncateTo5(x) == (x \div RoundUnit) * RoundUnit

Round5(x) == RoundHalfEven[x \div RoundUnit, x % RoundUnit]

\* signbit(fpre) == signbit(fcur), for values that are not zero.
SameSign(fa, fb) == Sgn(fa) = Sgn(fb)

\* A run that ended: no loop state is live.
Ended(status, P, mode, roundtrip, fa, fb, evals, iter, root) ==
    [NoRun EXCEPT !.status = status, !.P = P, !.mode = mode,
                  !.roundtrip = roundtrip, !.fpre = fa, !.fcur = fb,
                  !.evals = evals, !.iter = iter, !.root = root,
                  !.result = IF status = "ok" THEN Round5(root) ELSE 0]

\* brentq up to its loop: f at both ends, the zero tests and the sign test.
BrentStart(P, mode, roundtrip, fa, fb) ==
    IF IsNaN(fa)
    THEN Ended("nan_error", P, mode, roundtrip, fa, 0, {BracketLo}, 0, 0)
    ELSE IF IsNaN(fb)
    THEN Ended("nan_error", P, mode, roundtrip, fa, fb, {BracketLo, BracketHi}, 0, 0)
    ELSE IF fa = 0
    THEN Ended("ok", P, mode, roundtrip, fa, fb, {BracketLo, BracketHi}, 0, BracketLo)
    ELSE IF fb = 0
    THEN Ended("ok", P, mode, roundtrip, fa, fb, {BracketLo, BracketHi}, 0, BracketHi)
    ELSE IF SameSign(fa, fb)
    THEN Ended("sign_error", P, mode, roundtrip, fa, fb, {BracketLo, BracketHi}, 0, 0)
    ELSE [NoRun EXCEPT !.status = "running", !.P = P, !.mode = mode,
                       !.roundtrip = roundtrip,
                       !.xpre = BracketLo, !.xcur = BracketHi,
                       !.fpre = fa, !.fcur = fb,
                       !.evals = {BracketLo, BracketHi}]

\* implied_vol(P, S, K, T, r, mode) for a quoted premium P.
ImpliedVol(P, mode) ==
    /\ pc = "idle"
    /\ contract \in ValidContracts
    /\ \E b \in {BrentStart(P, mode, FALSE,
                            XSub[EndpointMemo[<<contract, mode, BracketLo>>], P],
                            XSub[EndpointMemo[<<contract, mode, BracketHi>>], P])} :
          /\ run' = b
          /\ pc' = IF b.status = "running" THEN "brent" ELSE "idle"
    /\ last' = NoCall
    /\ greek' = NoGreek
    /\ UNCHANGED contract

\* implied_vol(black_scholes(σ, S, K, T, r, mode), S, K, T, r, mode): the
\* premium the last call returned is handed back to the solver.
RoundTrip ==
    /\ pc = "idle"
    /\ contract \in ValidContracts
    /\ last.kind = "full"
    /\ last.sigma \in Vols
    /\ last.mode \in {0, 1}
    /\ \E b \in {BrentStart(last.premium, last.mode, TRUE,
                    XSub[EndpointMemo[<<contract, last.mode, BracketLo>>], last.premium],
                    XSub[EndpointMemo[<<contract, last.mode, BracketHi>>], last.premium])} :
          /\ run' = b
          /\ pc' = IF b.status = "running" THEN "brent" ELSE "idle"
    /\ greek' = NoGreek
    /\ UNCHANGED <<contract, last>>

\* if (fpre != 0 && fcur != 0 && signbit(fpre) != signbit(fcur)) { ... }
Rebracket(b) ==
    IF b.fpre # 0 /\ b.fcur # 0 /\ Sgn(b.fpre) # Sgn(b.fcur)
    THEN [b EXCEPT !.xblk = b.xpre, !.fblk = b.fpre,
                   !.spre = b.xcur - b.xpre, !.scur = b.xcur - b.xpre]
    ELSE b

\* if (fabs(fblk) < fabs(fcur)) { ... }
Reorder(b) ==
    IF Abs(b.fblk) < Abs(b.fcur)
    THEN [b EXCEPT !.xpre = b.xcur, !.xcur = b.xblk, !.xblk = b.xcur,
                   !.fpre = b.fcur, !.fcur = b.fblk, !.fblk = b.fcur]
    ELSE b

\* delta = (xtol + rtol*fabs(xcur))/2
Delta(b) == XTOL \div 2

\* sbis = (xblk - xcur)/2
Sbis(b) == Sgn(b.xblk - b.xcur) * (Abs(b.xblk - b.xcur) \div 2)

\* The loop that stops only on an exact root: no tolerance, no cap.
LoopUntilExactRoot(i, fcur, sbis, delta) ==
    IF fcur = 0 THEN "converged" ELSE "continue"

\* for (i = 0; i < iter; i++) { ... if (fcur == 0 || fabs(sbis) < delta) return xcur; ... }
LoopControl(i, fcur, sbis, delta) ==
    IF i >= MAXITER THEN "converr"
    ELSE IF fcur = 0 \/ Abs(sbis) < delta THEN "converged"
    ELSE "continue"

\* The secant step, -fcur*(xcur - xpre)/(fcur - fpre).
Interpolate(b) == MulDiv[-b.fcur, b.xcur - b.xpre, b.fcur - b.fpre]

\* The inverse quadratic step,
\*     -fcur*(fblk*dblk - fpre*dpre)/(dblk*dpre*(fblk - fpre))
\* with dpre = (fpre - fcur)/(xpre - xcur) and dblk = (fblk - fcur)/(xblk - xcur),
\* which is
\*     -fcur*fblk*(xpre - xcur)/((fpre - fcur)*(fblk - fpre))
\*   +  fcur*fpre*(xblk - xcur)/((fblk - fcur)*(fblk - fpre)).
Extrapolate(b) ==
    XAdd[MulDiv[MulDiv[b.xpre - b.xcur, b.fblk, b.fblk - b.fpre],
                -b.fcur, b.fpre - b.fcur],
         MulDiv[MulDiv[b.xblk - b.xcur, b.fpre, b.fblk - b.fpre],
                b.fcur, b.fblk - b.fcur]]

Stry(b) == IF b.xpre = b.xblk THEN Interpolate(b) ELSE Extrapolate(b)

\* The step taken from b: stry when it is a good short step, else bisection.
ChooseStep(b, stry) ==
    IF 2 * Abs(stry) < Min(Abs(b.spre), 3 * Abs(Sbis(b)) - Delta(b))
    THEN [b EXCEPT !.spre = b.scur, !.scur = stry]
    ELSE [b EXCEPT !.spre = Sbis(b), !.scur = Sbis(b)]

\* xpre = xcur; fpre = fcur; xcur += (fabs(scur) > delta ? scur : +-delta);
\* sbis is the one computed before the step was chosen.
Advance(b, sbis) ==
    [b EXCEPT !.xpre = b.xcur, !.fpre = b.fcur,
              !.xcur = b.xcur + (IF Abs(b.scur) > Delta(b) THEN b.scur
                                 ELSE IF sbis > 0 THEN Delta(b) ELSE -Delta(b))]

\* One pass of brentq's loop, and what follows it when the loop is left:
\* the rounding of the root, or the error the wrapper raises.
BrentIter ==
    /\ pc = "brent"
    /\ \E b \in {Reorder(Rebracket(run))} :
       \E ctl \in {LoopControl(run.iter, b.fcur, Sbis(b), Delta(b))} :
          IF ctl = "converr"
          THEN /\ run' = Ended("convergence_error", run.P, run.mode, run.roundtrip,
                               run.fpre, run.fcur, run.evals, run.iter, 0)
               /\ pc' = "idle"
          ELSE IF ctl = "converged"
          THEN /\ run' = Ended("ok", run.P, run.mode, run.roundtrip,
                               b.fpre, b.fcur, run.evals, run.iter + 1, b.xcur)
               /\ pc' = "idle"
          ELSE \E s \in {IF Abs(b.spre) > Delta(b) /\ Abs(b.fcur) < Abs(b.fpre)
                         THEN ChooseStep(b, Stry(b))
                         ELSE [b EXCEPT !.spre = Sbis(b), !.scur = Sbis(b)]} :
               \E n \in {Advance(s, Sbis(b))} :
               \E f \in {objective(n.xcur, contract, run.mode, run.P)} :
                  IF IsNaN(f)
                  THEN /\ run' = Ended("nan_error", run.P, run.mode, run.roundtrip,
                                       n.fpre, f, run.evals \cup {n.xcur},
                                       run.iter + 1, 0)
                       /\ pc' = "idle"
                  ELSE /\ run' = [n EXCEPT !.fcur = f, !.iter = run.iter + 1,
                                           !.evals = run.evals \cup {n.xcur}]
                       /\ pc' = "brent"
    /\ UNCHANGED <<contract, last, greek>>

\* The quoted premiums the solver is called with.
Quotes == {5 * KS * i : i \in 0..NQuote} \cup {104506, 1000 * KS}

Init ==
    /\ contract \in Contracts
    /\ last = NoCall
    /\ greek = NoGreek
    /\ pc = "idle"
    /\ run = NoRun

NextKernel ==
    \/ \E sigma \in Vols \cup BadVols, mode \in Modes : Price(sigma, mode)
    \/ \E sigma \in Vols \cup BadVols : PriceDefault(sigma)
    \/ \E name \in GreekNames, sigma \in Vols, mode \in {0, 1} :
           GreekCall(name, sigma, mode)

\* The kernel and the greeks alone.
SpecKernel == Init /\ [][NextKernel]_vars

Next ==
    \/ NextKernel
    \/ \E P \in Quotes, mode \in {0, 1} : ImpliedVol(P, mode)
    \/ RoundTrip
    \/ BrentIter

Spec == Init /\ [][Next]_vars

(***************************************************************************)
(* Properties.                                                             *)
(***************************************************************************)
\* K·e^(-rT) - S, the amount parity adds to the call.
ParityOffset(r) == XSub[DiscountedStrike(contract.K, contract.T, r), contract.S]

\* C1: for valid inputs the premium black_scholes returns for the put
\* (mode 1) is K·e^(-rT) - S plus the premium it returns for the call
\* (mode 0) at the same σ, S, K, T, r.
PutCallParity ==
    (last.kind = "full" /\ last.mode = 1 /\ ValidInput(last.sigma, contract)) =>
        last.premium =
            XAdd[ParityOffset(last.r), PremiumMemo[<<contract, last.sigma, last.r, 0>>]]

\* A put was priced, with a discounted strike, where the call has a premium.
PutPriced ==
    /\ last.kind = "full" /\ last.mode = 1 /\ ValidInput(last.sigma, contract)
    /\ last.r # 0
    /\ PremiumMemo[<<contract, last.sigma, last.r, 0>>] > 0
    /\ IsFinite(last.premium) /\ last.premium > 0

\* C2: a call of black_scholes with σ <= 0, S <= 0, K <= 0 or T <= 0 ends
\* in a domain error and returns no premium.
InvalidInputRaises ==
    (last.kind # "none" /\ ~ValidInput(last.sigma, contract)) =>
        last.outcome = "domain_error"

\* f at the ends of the bracket, for the run's quote.
EndValue(x) == XSub[EndpointMemo[<<contract, run.mode, x>>], run.P]

RunEnded == pc = "idle" /\ run.status # "none"

\* C3: when f has no sign change between the ends of the bracket,
\* implied_vol fails with a bracketing or convergence error and returns no
\* volatility, an end of the bracket included.
NoSignChangeFails ==
    (/\ RunEnded
     /\ IsFinite(EndValue(BracketLo)) /\ IsFinite(EndValue(BracketHi))
     /\ Sgn(EndValue(BracketLo)) * Sgn(EndValue(BracketHi)) # -1) =>
        run.status \in {"sign_error", "convergence_error"}

\* C4: every σ at which a run of implied_vol evaluates the kernel
\* satisfies 0 < σ <= 10.
KernelNeverAtZero ==
    \A x \in run.evals : 0 < x /\ x <= BracketHi

\* C5: the loop of implied_vol makes at most MAXITER passes; a run in the
\* loop can always take its next pass, and a run that left it returned a
\* volatility or failed, with the convergence error only at the limit.
BoundedIterations ==
    /\ run.iter <= MAXITER
    /\ pc = "brent" => run.status = "running" /\ ENABLED BrentIter
    /\ pc = "idle" =>
          run.status \in {"none", "ok", "sign_error", "nan_error", "convergence_error"}
    /\ run.status = "convergence_error" => run.iter = MAXITER

\* A run returned a volatility after many passes of the loop.
LongRunReturned == RunEnded /\ run.status = "ok" /\ run.iter >= 20

\* C6: for σ in (0, 5) and T > 0.1, implied_vol of the premium
\* black_scholes returned succeeds and is within 1e-4 of σ.
RoundTripRecovers ==
    (/\ RunEnded /\ run.roundtrip
     /\ last.sigma > 0 /\ last.sigma < 5 * KS /\ 10 * contract.T > KS) =>
        /\ run.status = "ok"
        /\ Abs(run.result - last.sigma * (XS \div KS)) <= XS \div 10000

\* C7: for fixed S, K, T, r and mode, black_scholes at a smaller σ > 0 is
\* strictly below black_scholes at a larger one.
StrictlyIncreasingInVol ==
    (last.kind = "full" /\ ValidInput(last.sigma, contract)) =>
        \A s1 \in Vols :
            s1 < last.sigma =>
                PremiumMemo[<<contract, s1, last.r, last.mode>>] < last.premium

\* C8: the value implied_vol returns is a multiple of 10^-5 and is within
\* half of 10^-5 of the root brentq found.
ResultRoundedTo5 ==
    (RunEnded /\ run.status = "ok") =>
        /\ run.result % RoundUnit = 0
        /\ 2 * Abs(run.result - run.root) <= RoundUnit

\* A root off the 10^-5 grid was returned.
OffGridRootReturned ==
    /\ RunEnded /\ run.status = "ok" /\ run.iter > 0
    /\ run.root % RoundUnit # 0
    /\ run.result # run.root

\* The parameters each greek's definition names, innermost derivative first.
Differentiated ==
    [delta |-> <<"S">>, gamma |-> <<"S", "S">>, theta |-> <<"T">>,
     vega |-> <<"sigma">>, vanna |-> <<"S", "sigma">>, charm |-> <<"S", "T">>]

\* The position of a parameter in black_scholes' signature, from 0.
ArgIndex(p) == (CHOOSE i \in 1..Len(Params) : Params[i] = p) - 1

ByDefinition(name, x) ==
    IF Len(Differentiated[name]) = 1
    THEN JacfwdBlackScholes(ArgIndex(Differentiated[name][1]), x)
    ELSE JacfwdDelta(ArgIndex(Differentiated[name][2]), x)

DefinitionMemo ==
    Tabulated([a \in ValidContracts \X GreekNames \X Vols \X {0, 1} |->
                  ByDefinition(a[2], <<a[3], a[1].S, a[1].K, a[1].T, a[1].r, a[4]>>)])

\* C9: each greek is the derivative with respect to the parameters its
\* definition names: σ is positional argument 0, S is 1, T is 3, and the
\* second-order greeks differentiate delta.
GreeksDifferentiateNamedArgs ==
    /\ ArgIndex("sigma") = 0 /\ ArgIndex("S") = 1 /\ ArgIndex("T") = 3
    /\ \A g \in GreekNames : Differentiated[g][1] = "S" \/ Len(Differentiated[g]) = 1
    /\ greek.name # "none" =>
          greek.value =
              DefinitionMemo[<<contract, greek.name, greek.sigma, greek.mode>>]

\* charm was computed and is not zero.
CharmComputed == greek.name = "charm" /\ IsFinite(greek.value) /\ greek.value # 0

====
